---- MODULE Spec2Model ----
(***************************************************************************)
(* The OtherCommands dialog of algobot (algobot/interface/other_commands.py) *)
(* as a state machine: the dialog's fields and widgets, the workers it     *)
(* hands to its thread pool, the queue of worker signals posted to the UI  *)
(* thread, and the directories the purge buttons delete.                   *)
(*                                                                         *)
(* Every slot of the dialog runs on the UI thread and is one action.       *)
(* purge is three actions because it blocks in a modal question box and    *)
(* then calls into the file system, and other actors change the file       *)
(* system in between.  Worker signals are emitted on pool threads and      *)
(* delivered to the slots through the UI thread's event queue, in the      *)
(* order they were posted.                                                 *)
(***************************************************************************)
EXTENDS Integers, Sequences, FiniteSets, TLC

(***************************************************************************)
(* Bounds of the model.                                                    *)
(***************************************************************************)
\* Date-lookup workers created in one run of the dialog.
MaxDateWorkers == 2
\* Download workers created in one run of the dialog.
MaxCsvWorkers == 1
\* progress signals one download worker emits.
MaxProgress == 1

DateWorkerIds == 1..MaxDateWorkers
CsvWorkerIds == 1..MaxCsvWorkers

(***************************************************************************)
(* Values.                                                                 *)
(***************************************************************************)
\* Python's None for a worker reference.
None == 0
\* Python's None for the startDate argument of DownloadThread.
NoDate == -1
\* Text of csvGenerationTicker.
Symbols == {"BTCUSDT", "ETHUSDT"}
\* Items of the csvGenerationDataInterval combo box.
LongIntervals == {"1 Minute", "1 Day"}
\* Messages of the exceptions a worker's task raises.
ErrorMessages == {"Invalid symbol.", "Connection timed out."}
\* Paths the download worker saves to.
SavedPaths == {"CSV/BTCUSDT_data_1m.csv"}
\* The purge buttons' categories.
Directories == {"Logs", "Databases", "Backtest Results", "Configuration",
                "Credentials", "CSV"}

\* datetime.fromtimestamp(int(ts) / 1000): milliseconds to seconds.
MsPerSecond == 1000
\* Seconds in one UTC calendar day.
SecondsPerDay == 86400
\* datetime.now(tz=timezone.utc), in milliseconds since the epoch.
NowTs == 3 * SecondsPerDay * MsPerSecond + 5000

\* helpers.convert_long_interval.
convert_long_interval(longInterval) ==
    CASE longInterval = "1 Minute" -> "1m"
      [] longInterval = "1 Day" -> "1d"

\* binanceClient._get_earliest_valid_timestamp(symbol, interval), in ms.
EarliestValidTimestamp(symbol, interval) ==
    CASE symbol = "BTCUSDT" /\ interval = "1m" -> 1 * SecondsPerDay * MsPerSecond + 999
      [] symbol = "BTCUSDT" /\ interval = "1d" -> 1 * SecondsPerDay * MsPerSecond
      [] symbol = "ETHUSDT" /\ interval = "1m" -> 3 * SecondsPerDay * MsPerSecond - 1
      [] symbol = "ETHUSDT" /\ interval = "1d" -> 2 * SecondsPerDay * MsPerSecond

\* The UTC calendar day of a timestamp in ms, as a day number: the QDate
\* built from datetime.fromtimestamp(int(ts) / 1000, tz=timezone.utc).
QDateOfTimestamp(ts) == (ts \div MsPerSecond) \div SecondsPerDay

\* get_start_date_for_csv, given the widget texts it read.
get_start_date_for_csv(symbol, interval) ==
    <<QDateOfTimestamp(EarliestValidTimestamp(symbol, interval)),
      QDateOfTimestamp(NowTs)>>

\* str.lower() of a purge category.
Lower(directory) ==
    CASE directory = "Logs" -> "logs"
      [] directory = "Databases" -> "databases"
      [] directory = "Backtest Results" -> "backtest results"
      [] directory = "Configuration" -> "configuration"
      [] directory = "Credentials" -> "credentials"
      [] directory = "CSV" -> "csv"

\* str.capitalize() of a purge category.
Capitalize(directory) ==
    CASE directory = "Logs" -> "Logs"
      [] directory = "Databases" -> "Databases"
      [] directory = "Backtest Results" -> "Backtest results"
      [] directory = "Configuration" -> "Configuration"
      [] directory = "Credentials" -> "Credentials"
      [] directory = "CSV" -> "Csv"

\* The texts the dialog builds.
PurgeWarningText(directory) == "No " \o Lower(directory) \o " files detected."
PurgeQuestionText(directory) ==
    "Are you sure you want to delete your " \o Lower(directory)
    \o " files? You might not be able to undo this operation. "
    \o "The following path will be deleted: " \o directory
PurgeSuccessText(directory) ==
    Capitalize(directory) \o " files have been successfully deleted."
SavedText(savedPath) == "Successfully saved CSV data to " \o savedPath \o "."
StartDateErrorText(error_message) == error_message
DownloadErrorTextVerbatim(e) == e
DownloadErrorText(e) == "Download failed because of error: " \o e

(***************************************************************************)
(* State.                                                                  *)
(***************************************************************************)
VARIABLES
    \* fields of the dialog
    csvThread,                 \* a download worker's id, or None
    setDateThread,             \* a date-lookup worker's id, or None
    currentDateList,           \* <<>> for None, or <<qStart, qEnd>>
    \* widgets
    generateCSVButton,         \* isEnabled()
    stopButton,                \* isEnabled()
    csvGenerationStatus,       \* text()
    csvGenerationProgressBar,  \* value()
    csvGenerationTicker,       \* text()
    csvGenerationDataInterval, \* currentText()
    startDateCalendar,         \* [minimum, maximum, selected]
    infoLabel,                 \* text()
    messageBox,                \* the message box shown last: [kind, text]
    parentLogger,              \* parent.logger
    \* purge in progress
    purgePc,                   \* "idle", "question", "rmtree"
    purgeDir,                  \* purge's argument directory
    purgeRet,                  \* purge's local ret: "", "Yes", "No"
    purgeCalled,               \* the last step was a call of purge
    pathExists,                \* os.path.exists, per category
    \* thread pool and event queue
    dateWorkers,               \* id -> [pc, symbol, interval]
    csvWorkers,                \* id -> [pc, interval, symbol, startDate, stop, progress]
    events,                    \* signals posted to the UI thread, oldest first
    \* history
    currentDateSrc,            \* the lookup currentDateList came from
    handled,                   \* the signals the dialog's slots have handled
    lastLookup,                \* outcome of the date lookup handled last
    stopLog                    \* the last run of stop_csv_generation, as it began

dialogVars == <<csvThread, setDateThread, currentDateList>>
csvWidgetVars == <<generateCSVButton, stopButton, csvGenerationStatus,
                   csvGenerationProgressBar, csvGenerationTicker,
                   csvGenerationDataInterval, startDateCalendar>>
purgeVars == <<infoLabel, parentLogger, purgePc, purgeDir, purgeRet,
               purgeCalled, pathExists>>
poolVars == <<dateWorkers, csvWorkers, events>>
histVars == <<currentDateSrc, handled, lastLookup, stopLog>>
csvVars == <<dialogVars, csvWidgetVars, poolVars, histVars>>
vars == <<dialogVars, csvWidgetVars, purgeVars, poolVars, histVars,
          messageBox>>

\* A signal posted to the UI thread: arg is its str argument, progress its
\* int argument, list its list argument.
Signal(kind, w, sig, arg, progress, list) ==
    [kind |-> kind, w |-> w, sig |-> sig, arg |-> arg, progress |-> progress,
     list |-> list]

NoDateWorker == [pc |-> "new", symbol |-> "", interval |-> ""]
NoCsvWorker == [pc |-> "new", interval |-> "", symbol |-> "",
                startDate |-> NoDate, stop |-> FALSE, progress |-> 0]

(***************************************************************************)
(* __init__: the fields are None.  The widgets are as the .ui file loaded  *)
(* at line 24 leaves them; that file is not part of the sources, and the   *)
(* model takes the generate and stop buttons to start disabled, the ticker *)
(* and the interval to start at their first values.  The application's     *)
(* directories exist; FsRemove and FsCreate change that.                   *)
(***************************************************************************)
Init ==
    /\ csvThread = None
    /\ setDateThread = None
    /\ currentDateList = <<>>
    /\ generateCSVButton = FALSE
    /\ stopButton = FALSE
    /\ csvGenerationStatus = ""
    /\ csvGenerationProgressBar = 0
    /\ csvGenerationTicker = "BTCUSDT"
    /\ csvGenerationDataInterval = "1 Minute"
    /\ startDateCalendar = [minimum |-> QDateOfTimestamp(NowTs),
                            maximum |-> QDateOfTimestamp(NowTs),
                            selected |-> QDateOfTimestamp(NowTs)]
    /\ infoLabel = ""
    /\ messageBox = [kind |-> "none", text |-> ""]
    /\ parentLogger = "initial"
    /\ purgePc = "idle"
    /\ purgeDir = ""
    /\ purgeRet = ""
    /\ purgeCalled = FALSE
    /\ pathExists = [d \in Directories |-> TRUE]
    /\ dateWorkers = [d \in DateWorkerIds |-> NoDateWorker]
    /\ csvWorkers = [w \in CsvWorkerIds |-> NoCsvWorker]
    /\ events = <<>>
    /\ currentDateSrc = [symbol |-> "", interval |-> "", w |-> None]
    /\ handled = {}
    /\ lastLookup = "none"
    /\ stopLog = [ran |-> FALSE, target |-> None, inFlight |-> {},
                  targetOver |-> FALSE]

(***************************************************************************)
(* The slots of the CSV workflow.  Each is the slot's effect on the state  *)
(* it writes; the action that runs it adds what the slot leaves alone.     *)
(***************************************************************************)
\* The id the next Worker / DownloadThread object gets.
NextDateId == CHOOSE d \in DateWorkerIds :
                 /\ dateWorkers[d].pc = "new"
                 /\ \A e \in DateWorkerIds : e < d => dateWorkers[e].pc # "new"
NextCsvId == CHOOSE w \in CsvWorkerIds :
                /\ csvWorkers[w].pc = "new"
                /\ \A v \in CsvWorkerIds : v < w => csvWorkers[v].pc # "new"

start_date_thread(d) ==
    /\ csvGenerationStatus' = "Searching for earliest start date.."
    /\ csvGenerationProgressBar' = 0
    /\ setDateThread' = d
    /\ dateWorkers' = [dateWorkers EXCEPT ![d].pc = "queued"]

set_start_date_for_csv_keepList(startEndList) ==
    /\ currentDateList' = currentDateList
    /\ startDateCalendar' = [minimum |-> startEndList[1],
                             maximum |-> startEndList[2],
                             selected |-> startEndList[1]]
    /\ csvGenerationStatus' = "Setup filtered date successfully."
    /\ generateCSVButton' = TRUE

set_start_date_for_csv(startEndList) ==
    /\ currentDateList' = startEndList
    /\ startDateCalendar' = [minimum |-> startEndList[1],
                             maximum |-> startEndList[2],
                             selected |-> startEndList[1]]
    /\ csvGenerationStatus' = "Setup filtered date successfully."
    /\ generateCSVButton' = TRUE

error_handle_for_csv_start_date(error_message) ==
    /\ csvGenerationStatus' = StartDateErrorText(error_message)
    /\ generateCSVButton' = FALSE

\* Lines 127-144, reached when currentDateList is a list.
initiate_csv_generation(w, selectedDate) ==
    LET symbol == csvGenerationTicker
        interval == convert_long_interval(csvGenerationDataInterval)
        startDate == IF selectedDate = currentDateList[1] THEN NoDate
                     ELSE selectedDate
    IN /\ csvGenerationStatus' = "Downloading data..."
       /\ csvWorkers' = [csvWorkers EXCEPT ![w] =
              [pc |-> "queued", interval |-> interval, symbol |-> symbol,
               startDate |-> startDate, stop |-> FALSE, progress |-> 0]]
       /\ csvThread' = w

progress_update(progress, message) ==
    /\ csvGenerationProgressBar' = progress
    /\ csvGenerationStatus' = message

end_csv_generation(savedPath) ==
    /\ csvGenerationStatus' = SavedText(savedPath)
    /\ csvGenerationProgressBar' = 100
    /\ generateCSVButton' = TRUE
    /\ messageBox' = [kind |-> "information", text |-> SavedText(savedPath)]

disable_csv_state ==
    /\ generateCSVButton' = FALSE
    /\ stopButton' = TRUE

restore_csv_state ==
    /\ generateCSVButton' = TRUE
    /\ stopButton' = FALSE
    /\ csvThread' = None

\* DownloadThread.stop(), on worker w.
DownloadThreadStop(w) == csvWorkers' = [csvWorkers EXCEPT ![w].stop = TRUE]

stop_csv_generation ==
    IF csvThread # None
    THEN /\ csvGenerationStatus' = "Canceling download..."
         /\ DownloadThreadStop(csvThread)
    ELSE UNCHANGED <<csvGenerationStatus, csvWorkers>>

handle_csv_generation_error(e) ==
    csvGenerationStatus' = DownloadErrorText(e)

(***************************************************************************)
(* The user's events.  A modal message box of purge blocks them.           *)
(***************************************************************************)
\* The user edits the ticker and leaves it: editingFinished.
EditingFinished ==
    /\ purgePc = "idle"
    /\ \E d \in DateWorkerIds : dateWorkers[d].pc = "new"
    /\ \E text \in Symbols : csvGenerationTicker' = text
    /\ start_date_thread(NextDateId)
    /\ UNCHANGED <<csvThread, currentDateList, generateCSVButton, stopButton,
                   csvGenerationDataInterval, startDateCalendar, purgeVars,
                   csvWorkers, events, histVars, messageBox>>

\* The user picks another item of the interval combo box: no slot runs.
ChangeInterval ==
    /\ purgePc = "idle"
    /\ \E i \in LongIntervals \ {csvGenerationDataInterval} :
          csvGenerationDataInterval' = i
    /\ UNCHANGED <<dialogVars, generateCSVButton, stopButton, csvGenerationStatus,
                   csvGenerationProgressBar, csvGenerationTicker,
                   startDateCalendar, purgeVars, poolVars, histVars, messageBox>>

\* The user picks the first or the last day of the calendar's date range and
\* clicks generateCSVButton, which is enabled.  With currentDateList None, line 133
\* raises TypeError and the slot ends there.
GenerateClick ==
    /\ purgePc = "idle"
    /\ generateCSVButton
    /\ \E w \in CsvWorkerIds : csvWorkers[w].pc = "new"
    /\ \E day \in {startDateCalendar.minimum, startDateCalendar.maximum} :
          /\ startDateCalendar' = [startDateCalendar EXCEPT !.selected = day]
          /\ IF currentDateList = <<>>
             THEN UNCHANGED <<csvGenerationStatus, csvWorkers, csvThread>>
             ELSE initiate_csv_generation(NextCsvId, day)
    /\ UNCHANGED <<setDateThread, currentDateList, generateCSVButton, stopButton,
                   csvGenerationProgressBar, csvGenerationTicker,
                   csvGenerationDataInterval, purgeVars,
                   dateWorkers, events, histVars, messageBox>>

\* The download workers whose run() has not emitted its last signal.
CsvInFlight == {w \in CsvWorkerIds : csvWorkers[w].pc \in {"queued", "running", "locked"}}
\* The date-lookup workers whose run() has not emitted its last signal.
DateInFlight == {d \in DateWorkerIds :
                    dateWorkers[d].pc \in {"queued", "started", "fetching"}}

\* The user clicks stopButton, which is enabled.
StopClick ==
    /\ purgePc = "idle"
    /\ stopButton
    /\ stop_csv_generation
    /\ stopLog' = [ran |-> TRUE,
                   target |-> csvThread,
                   inFlight |-> CsvInFlight,
                   targetOver |-> \/ <<"csv", csvThread, "csv_finished">> \in handled
                                  \/ <<"csv", csvThread, "error">> \in handled]
    /\ UNCHANGED <<dialogVars, generateCSVButton, stopButton,
                   csvGenerationProgressBar, csvGenerationTicker,
                   csvGenerationDataInterval, startDateCalendar, purgeVars,
                   dateWorkers, events, currentDateSrc, handled, lastLookup,
                   messageBox>>

(***************************************************************************)
(* The workers, on the pool's threads.  Worker.run and DownloadThread.run  *)
(* emit started, run the task, emit its result or its error, and emit      *)
(* restore last; the dialog connects no slot to a date worker's restore.   *)
(***************************************************************************)
Post(sig) == events' = Append(events, sig)

DateWorkerStart(d) ==
    /\ dateWorkers[d].pc = "queued"
    /\ dateWorkers' = [dateWorkers EXCEPT ![d].pc = "started"]
    /\ Post(Signal("date", d, "started", "", 0, <<>>))
    /\ UNCHANGED <<dialogVars, csvWidgetVars, purgeVars, csvWorkers, histVars,
                   messageBox>>

\* get_start_date_for_csv, lines 95-96: the task reads the two widgets, on
\* the pool's thread, whatever the UI thread has made of them by then.
DateWorkerRead(d) ==
    /\ dateWorkers[d].pc = "started"
    /\ dateWorkers' = [dateWorkers EXCEPT ![d] =
          [pc |-> "fetching", symbol |-> csvGenerationTicker,
           interval |-> convert_long_interval(csvGenerationDataInterval)]]
    /\ UNCHANGED <<dialogVars, csvWidgetVars, purgeVars, csvWorkers, events,
                   histVars, messageBox>>

\* get_start_date_for_csv, lines 98-104: the task returns the two dates.
DateWorkerReturn(d) ==
    /\ dateWorkers[d].pc = "fetching"
    /\ dateWorkers' = [dateWorkers EXCEPT ![d].pc = "done"]
    /\ Post(Signal("date", d, "finished", "", 0,
                   get_start_date_for_csv(dateWorkers[d].symbol,
                                          dateWorkers[d].interval)))
    /\ UNCHANGED <<dialogVars, csvWidgetVars, purgeVars, csvWorkers, histVars,
                   messageBox>>

\* get_start_date_for_csv, line 98: the market-data client raises.
DateWorkerRaise(d) ==
    /\ dateWorkers[d].pc = "fetching"
    /\ dateWorkers' = [dateWorkers EXCEPT ![d].pc = "done"]
    /\ \E e \in ErrorMessages :
          Post(Signal("date", d, "error", e, 0, <<>>))
    /\ UNCHANGED <<dialogVars, csvWidgetVars, purgeVars, csvWorkers, histVars,
                   messageBox>>

CsvWorkerStart(w) ==
    /\ csvWorkers[w].pc = "queued"
    /\ csvWorkers' = [csvWorkers EXCEPT ![w].pc = "running"]
    /\ Post(Signal("csv", w, "started", "", 0, <<>>))
    /\ UNCHANGED <<dialogVars, csvWidgetVars, purgeVars, dateWorkers, histVars,
                   messageBox>>

CsvWorkerProgress(w) ==
    /\ csvWorkers[w].pc = "running"
    /\ csvWorkers[w].progress < MaxProgress
    /\ csvWorkers' = [csvWorkers EXCEPT ![w].progress = @ + 1]
    /\ Post(Signal("csv", w, "progress", "Downloading data...", 50, <<>>))
    /\ UNCHANGED <<dialogVars, csvWidgetVars, purgeVars, dateWorkers, histVars,
                   messageBox>>

\* The download is over and can no longer be cancelled.
CsvWorkerLocked(w) ==
    /\ csvWorkers[w].pc = "running"
    /\ csvWorkers' = [csvWorkers EXCEPT ![w].pc = "locked"]
    /\ Post(Signal("csv", w, "locked", "", 0, <<>>))
    /\ UNCHANGED <<dialogVars, csvWidgetVars, purgeVars, dateWorkers, histVars,
                   messageBox>>

CsvWorkerFinish(w) ==
    /\ csvWorkers[w].pc = "locked"
    /\ csvWorkers' = [csvWorkers EXCEPT ![w].pc = "done"]
    /\ \E savedPath \in SavedPaths :
          events' = events \o <<Signal("csv", w, "csv_finished", savedPath, 0, <<>>),
                                Signal("csv", w, "restore", "", 0, <<>>)>>
    /\ UNCHANGED <<dialogVars, csvWidgetVars, purgeVars, dateWorkers, histVars,
                   messageBox>>

CsvWorkerRaise(w) ==
    /\ csvWorkers[w].pc \in {"running", "locked"}
    /\ csvWorkers' = [csvWorkers EXCEPT ![w].pc = "done"]
    /\ \E e \in ErrorMessages :
          events' = events \o <<Signal("csv", w, "error", e, 0, <<>>),
                                Signal("csv", w, "restore", "", 0, <<>>)>>
    /\ UNCHANGED <<dialogVars, csvWidgetVars, purgeVars, dateWorkers, histVars,
                   messageBox>>

\* The task sees the stop request and ends without a file.
CsvWorkerCancelled(w) ==
    /\ csvWorkers[w].pc = "running"
    /\ csvWorkers[w].stop
    /\ csvWorkers' = [csvWorkers EXCEPT ![w].pc = "done"]
    /\ Post(Signal("csv", w, "restore", "", 0, <<>>))
    /\ UNCHANGED <<dialogVars, csvWidgetVars, purgeVars, dateWorkers, histVars,
                   messageBox>>

(***************************************************************************)
(* The UI thread takes the oldest signal and runs the slot connected to it *)
(* at lines 85-87 and 137-142.                                             *)
(***************************************************************************)
Oldest(kind, sig) ==
    /\ events # <<>>
    /\ Head(events).kind = kind
    /\ Head(events).sig = sig

Taken == /\ events' = Tail(events)
         /\ handled' = handled \cup {<<Head(events).kind, Head(events).w,
                                       Head(events).sig>>}

\* Line 86: lambda: self.generateCSVButton.setEnabled(False).
DeliverDateStarted ==
    /\ Oldest("date", "started")
    /\ generateCSVButton' = FALSE
    /\ Taken
    /\ UNCHANGED <<dialogVars, stopButton, csvGenerationStatus,
                   csvGenerationProgressBar, csvGenerationTicker,
                   csvGenerationDataInterval, startDateCalendar, purgeVars,
                   dateWorkers, csvWorkers, currentDateSrc, lastLookup,
                   stopLog, messageBox>>

DeliverDateFinished ==
    /\ Oldest("date", "finished")
    /\ set_start_date_for_csv(Head(events).list)
    /\ currentDateSrc' = [symbol |-> dateWorkers[Head(events).w].symbol,
                          interval |-> dateWorkers[Head(events).w].interval,
                          w |-> Head(events).w]
    /\ lastLookup' = "finished"
    /\ Taken
    /\ UNCHANGED <<csvThread, setDateThread, stopButton,
                   csvGenerationProgressBar, csvGenerationTicker,
                   csvGenerationDataInterval, purgeVars, dateWorkers,
                   csvWorkers, stopLog, messageBox>>

DeliverDateError ==
    /\ Oldest("date", "error")
    /\ error_handle_for_csv_start_date(Head(events).arg)
    /\ lastLookup' = "error"
    /\ Taken
    /\ UNCHANGED <<dialogVars, stopButton, csvGenerationProgressBar,
                   csvGenerationTicker, csvGenerationDataInterval,
                   startDateCalendar, purgeVars, dateWorkers, csvWorkers,
                   currentDateSrc, stopLog, messageBox>>

DeliverCsvStarted ==
    /\ Oldest("csv", "started")
    /\ disable_csv_state
    /\ Taken
    /\ UNCHANGED <<dialogVars, csvGenerationStatus, csvGenerationProgressBar,
                   csvGenerationTicker, csvGenerationDataInterval,
                   startDateCalendar, purgeVars, dateWorkers, csvWorkers,
                   currentDateSrc, lastLookup, stopLog, messageBox>>

DeliverCsvProgress ==
    /\ Oldest("csv", "progress")
    /\ progress_update(Head(events).progress, Head(events).arg)
    /\ Taken
    /\ UNCHANGED <<dialogVars, generateCSVButton, stopButton,
                   csvGenerationTicker, csvGenerationDataInterval,
                   startDateCalendar, purgeVars, dateWorkers, csvWorkers,
                   currentDateSrc, lastLookup, stopLog, messageBox>>

\* Line 137: lambda: self.stopButton.setEnabled(False).
DeliverCsvLocked ==
    /\ Oldest("csv", "locked")
    /\ stopButton' = FALSE
    /\ Taken
    /\ UNCHANGED <<dialogVars, generateCSVButton, csvGenerationStatus,
                   csvGenerationProgressBar, csvGenerationTicker,
                   csvGenerationDataInterval, startDateCalendar, purgeVars,
                   dateWorkers, csvWorkers, currentDateSrc, lastLookup,
                   stopLog, messageBox>>

DeliverCsvFinished ==
    /\ Oldest("csv", "csv_finished")
    /\ end_csv_generation(Head(events).arg)
    /\ Taken
    /\ UNCHANGED <<dialogVars, stopButton, csvGenerationTicker,
                   csvGenerationDataInterval, startDateCalendar, purgeVars,
                   dateWorkers, csvWorkers, currentDateSrc, lastLookup, stopLog>>

DeliverCsvError ==
    /\ Oldest("csv", "error")
    /\ handle_csv_generation_error(Head(events).arg)
    /\ Taken
    /\ UNCHANGED <<dialogVars, generateCSVButton, stopButton,
                   csvGenerationProgressBar, csvGenerationTicker,
                   csvGenerationDataInterval, startDateCalendar, purgeVars,
                   dateWorkers, csvWorkers, currentDateSrc, lastLookup,
                   stopLog, messageBox>>

DeliverCsvRestore ==
    /\ Oldest("csv", "restore")
    /\ restore_csv_state
    /\ Taken
    /\ UNCHANGED <<setDateThread, currentDateList, csvGenerationStatus,
                   csvGenerationProgressBar, csvGenerationTicker,
                   csvGenerationDataInterval, startDateCalendar, purgeVars,
                   dateWorkers, csvWorkers, currentDateSrc, lastLookup,
                   stopLog, messageBox>>

DateWorkerStep == \E d \in DateWorkerIds :
    DateWorkerStart(d) \/ DateWorkerRead(d) \/ DateWorkerReturn(d) \/ DateWorkerRaise(d)

CsvWorkerStep == \E w \in CsvWorkerIds :
    \/ CsvWorkerStart(w) \/ CsvWorkerProgress(w) \/ CsvWorkerLocked(w)
    \/ CsvWorkerFinish(w) \/ CsvWorkerRaise(w) \/ CsvWorkerCancelled(w)

NextCsv ==
    \/ EditingFinished \/ ChangeInterval
    \/ GenerateClick \/ StopClick
    \/ DateWorkerStep \/ CsvWorkerStep
    \/ DeliverDateStarted \/ DeliverDateFinished \/ DeliverDateError
    \/ DeliverCsvStarted \/ DeliverCsvProgress \/ DeliverCsvLocked
    \/ DeliverCsvFinished \/ DeliverCsvError \/ DeliverCsvRestore

SpecCsv == Init /\ [][NextCsv]_vars

(***************************************************************************)
(* purge.  The call runs to the question box (lines 60-68); the user's     *)
(* answer runs line 70; shutil.rmtree and what follows it run lines 71-75. *)
(* Other actors remove and create the directories at any moment.           *)
(***************************************************************************)
\* Lines 60-68, with the path missing and with the path there.
purge_call_noCheck(directory) ==
    /\ messageBox' = [kind |-> "question", text |-> PurgeQuestionText(directory)]
    /\ purgePc' = "question"

purge_call(directory) ==
    IF ~pathExists[directory]
    THEN /\ messageBox' = [kind |-> "about", text |-> PurgeWarningText(directory)]
         /\ purgePc' = "idle"
    ELSE /\ messageBox' = [kind |-> "question", text |-> PurgeQuestionText(directory)]
         /\ purgePc' = "question"

\* Line 70.
purge_answer(ret) ==
    purgePc' = IF ret = "Yes" /\ pathExists[purgeDir] THEN "rmtree" ELSE "idle"

\* helpers.get_logger(log_file='algobot', logger_name='algobot').
get_logger == "algobot"

\* Lines 71-75.  shutil.rmtree raises when the path is gone, and purge ends
\* there.
purge_rmtree_silent ==
    IF pathExists[purgeDir]
    THEN /\ pathExists' = [pathExists EXCEPT ![purgeDir] = FALSE]
         /\ infoLabel' = infoLabel
         /\ parentLogger' = IF purgeDir = "Logs" THEN get_logger ELSE parentLogger
    ELSE UNCHANGED <<pathExists, infoLabel, parentLogger>>

purge_rmtree ==
    IF pathExists[purgeDir]
    THEN /\ pathExists' = [pathExists EXCEPT ![purgeDir] = FALSE]
         /\ infoLabel' = PurgeSuccessText(purgeDir)
         /\ parentLogger' = IF purgeDir = "Logs" THEN get_logger ELSE parentLogger
    ELSE UNCHANGED <<pathExists, infoLabel, parentLogger>>

\* The user clicks one of the six purge buttons.
PurgeClick ==
    /\ purgePc = "idle"
    /\ \E directory \in Directories :
          /\ purgeDir' = directory
          /\ purge_call(directory)
    /\ purgeRet' = ""
    /\ purgeCalled' = TRUE
    /\ UNCHANGED <<infoLabel, parentLogger, pathExists, csvVars>>

\* The user answers the question box.
PurgeAnswer ==
    /\ purgePc = "question"
    /\ \E ret \in {"Yes", "No"} :
          /\ purgeRet' = ret
          /\ purge_answer(ret)
    /\ purgeCalled' = FALSE
    /\ UNCHANGED <<infoLabel, parentLogger, purgeDir, pathExists, messageBox,
                   csvVars>>

PurgeRmtree ==
    /\ purgePc = "rmtree"
    /\ purge_rmtree
    /\ purgePc' = "idle"
    /\ purgeCalled' = FALSE
    /\ UNCHANGED <<purgeDir, purgeRet, messageBox, csvVars>>

\* Another actor removes a directory.
FsRemove ==
    /\ \E directory \in Directories :
          /\ pathExists[directory]
          /\ pathExists' = [pathExists EXCEPT ![directory] = FALSE]
    /\ purgeCalled' = FALSE
    /\ UNCHANGED <<infoLabel, parentLogger, purgePc, purgeDir, purgeRet,
                   messageBox, csvVars>>

\* The application or another actor creates a directory, while no purge is
\* between its first check and its return.
FsCreate ==
    /\ purgePc = "idle"
    /\ \E directory \in Directories :
          /\ ~pathExists[directory]
          /\ pathExists' = [pathExists EXCEPT ![directory] = TRUE]
    /\ purgeCalled' = FALSE
    /\ UNCHANGED <<infoLabel, parentLogger, purgePc, purgeDir, purgeRet,
                   messageBox, csvVars>>

NextPurge == PurgeClick \/ PurgeAnswer \/ PurgeRmtree \/ FsRemove \/ FsCreate

SpecPurge == Init /\ [][NextPurge]_vars

\* The whole dialog.  The CSV workflow and purge write disjoint state, but
\* for messageBox, so each is checked under its own specification.
Next == NextCsv \/ NextPurge

Spec == Init /\ [][Next]_vars

(***************************************************************************)
(* Properties.                                                             *)
(***************************************************************************)
\* The dialog has run the slot connected to signal sig of worker w.
Handled(kind, w, sig) == <<kind, w, sig>> \in handled

\* This step runs the slot connected to the oldest signal, which is sig.
Delivers(kind, sig) == Oldest(kind, sig) /\ events' = Tail(events)

\* This step is the return of a purge that the user answered with Yes.
PurgeEndsAfterYes == purgePc # "idle" /\ purgePc' = "idle" /\ purgeRet' = "Yes"

\* C1: once the dialog has handled a worker's completion or failure
\* (csv_finished or error of a download worker, finished or error of a
\* date-lookup worker), it no longer references that worker.
C1_ReferenceClearedOnCompletion ==
    /\ \A w \in CsvWorkerIds :
          Handled("csv", w, "csv_finished") \/ Handled("csv", w, "error")
             => csvThread # w
    /\ \A d \in DateWorkerIds :
          Handled("date", d, "finished") \/ Handled("date", d, "error")
             => setDateThread # d

\* C2: at most one download worker and at most one date-lookup worker that
\* was submitted to the thread pool is unfinished.
C2_OneWorkerOfEachKind ==
    /\ Cardinality(CsvInFlight) <= 1
    /\ Cardinality(DateInFlight) <= 1

\* C3: a purge answered with Yes ends with the path gone and with infoLabel
\* reporting the deletion, also when another actor removed the path after the
\* first existence check.
C3_PurgeYesDeletesAndReports ==
    [][PurgeEndsAfterYes =>
          /\ ~pathExists'[purgeDir]
          /\ infoLabel' = PurgeSuccessText(purgeDir)]_vars

\* C3, amended: a purge answered with Yes ends with the path gone; infoLabel
\* reports the deletion if the path was still there when shutil.rmtree ran,
\* and is left as it was if another actor had removed the path by then.
C3_PurgeYesDeletesAndReportsIfThere ==
    [][PurgeEndsAfterYes =>
          /\ ~pathExists'[purgeDir]
          /\ IF pathExists[purgeDir]
             THEN infoLabel' = PurgeSuccessText(purgeDir)
             ELSE infoLabel' = infoLabel]_vars

\* A purge of an existing directory, answered with Yes, has deleted it and
\* reported so.
C3_Witness ==
    /\ purgePc = "idle"
    /\ purgeRet = "Yes"
    /\ ~pathExists[purgeDir]
    /\ infoLabel = PurgeSuccessText(purgeDir)

\* C4: a call of purge for a path that does not exist shows the warning and
\* nothing else: no question box, nothing deleted, infoLabel and the
\* parent's logger as they were.
C4_PurgeOfMissingPathOnlyWarns ==
    [][purgeCalled' /\ ~pathExists[purgeDir'] =>
          /\ purgePc' = "idle"
          /\ messageBox'.kind = "about"
          /\ messageBox'.text = "No " \o Lower(purgeDir') \o " files detected."
          /\ infoLabel' = infoLabel
          /\ parentLogger' = parentLogger
          /\ pathExists' = pathExists]_vars

\* purge('Logs') was called with the Logs directory missing.
C4_Witness ==
    /\ purgeCalled
    /\ purgeDir = "Logs"
    /\ ~pathExists["Logs"]
    /\ messageBox = [kind |-> "about", text |-> "No logs files detected."]

\* C5: when the dialog handles a worker's error signal with message e, the
\* status label is set to exactly e.
C5_ErrorShownVerbatim ==
    [][Delivers("date", "error") \/ Delivers("csv", "error") =>
          csvGenerationStatus' = Head(events).arg]_vars

\* C5, amended: a date-lookup worker's error message e is shown as e; a
\* download worker's error message e is shown as
\* "Download failed because of error: " followed by e.
C5_ErrorShownVerbatimOrPrefixed ==
    [][/\ Delivers("date", "error") => csvGenerationStatus' = Head(events).arg
       /\ Delivers("csv", "error") =>
             csvGenerationStatus' =
                "Download failed because of error: " \o Head(events).arg]_vars

\* The dialog has handled a download worker's error and shows it.
C5_Witness ==
    /\ \E w \in CsvWorkerIds : Handled("csv", w, "error")
    /\ csvGenerationStatus = "Download failed because of error: Connection timed out."

\* C6: a run of stop_csv_generation calls stop() on every download worker in
\* flight, and never on a worker whose completion or failure the dialog has
\* handled.  (With csvThread None the slot changes nothing: line 191.)
C6_StopReachesTheWorkerInFlight ==
    stopLog.ran =>
       /\ stopLog.inFlight \subseteq {stopLog.target}
       /\ stopLog.target # None => ~stopLog.targetOver

\* C7: from the handling of a download worker's started signal to the
\* handling of its csv_finished or restore signal, while the worker runs,
\* generateCSVButton is disabled.
C7_GenerateDisabledDuringDownload ==
    \A w \in CsvWorkerIds :
       /\ csvWorkers[w].pc \in {"running", "locked"}
       /\ Handled("csv", w, "started")
       /\ ~Handled("csv", w, "csv_finished")
       /\ ~Handled("csv", w, "restore")
       => ~generateCSVButton

\* C8: after the dialog has handled a date-lookup error, generateCSVButton
\* is disabled until it handles a date lookup's result.
C8_GenerateDisabledAfterLookupError ==
    lastLookup = "error" => ~generateCSVButton

\* C9: when initiate_csv_generation starts a download, currentDateList is
\* the result of a lookup for the download's symbol and interval, and of the
\* lookup requested last.
C9_DateRangeIsOfTheDownload ==
    [][\A w \in CsvWorkerIds :
          csvWorkers[w].pc = "new" /\ csvWorkers'[w].pc = "queued" =>
             /\ currentDateSrc.symbol = csvWorkers'[w].symbol
             /\ currentDateSrc.interval = csvWorkers'[w].interval
             /\ currentDateSrc.w = setDateThread]_vars

\* C10: with generateCSVButton disabled at creation and clicked only when
\* enabled, currentDateList is a list whenever generateCSVButton is enabled.
C10_EnabledImpliesDateList ==
    generateCSVButton => currentDateList # <<>>

\* A download has run, and generateCSVButton is enabled again after it.
C10_Witness ==
    /\ generateCSVButton
    /\ currentDateList # <<>>
    /\ \E w \in CsvWorkerIds : Handled("csv", w, "restore")

====
